---- MODULE Spec2Model ----
(***************************************************************************)
(* tasks2subissues.py: conversion of the checklist of a GitHub issue into  *)
(* sub-issues.  Strings are sequences of one-character strings, so that    *)
(* str.strip, str.startswith, str.split, slicing and the tasklist regular  *)
(* expression are computed character by character, as Python does.         *)
(***************************************************************************)
EXTENDS Integers, Sequences, FiniteSets, TLC

(***************************************************************************)
(* Bounds of the model.                                                    *)
(***************************************************************************)
\* task lines in the parent body of a run
MaxTasks == 2
\* lines in the body handed to extract_tasks in SpecExtract
MaxLines == 2

(***************************************************************************)
(* Python string primitives.                                               *)
(***************************************************************************)
\* the characters str.strip() removes
Whitespace == {" ", "\n", "\t"}

\* s[k:] with a non-negative k
SliceFrom(s, k) == SubSeq(s, k + 1, Len(s))

\* s.startswith(p)
StartsWith(s, p) == Len(s) >= Len(p) /\ SubSeq(s, 1, Len(p)) = p

\* s.lstrip()
RECURSIVE LStrip(_)
LStrip(s) == IF s # <<>> /\ Head(s) \in Whitespace THEN LStrip(Tail(s)) ELSE s

\* s.rstrip()
RECURSIVE RStrip(_)
RStrip(s) ==
  IF s # <<>> /\ s[Len(s)] \in Whitespace THEN RStrip(SubSeq(s, 1, Len(s) - 1)) ELSE s

\* s.strip()
Strip(s) == RStrip(LStrip(s))

\* the least element of a non-empty set of numbers
Least(S) == CHOOSE i \in S : \A j \in S : i <= j

\* s.split(sep) for a one-character sep: one part more than there are
\* separators, part k lying between separators k - 1 and k
Split(s, sep) ==
  LET at == { i \in 1..Len(s) : s[i] = sep }
      pos(k) == IF k = 0 THEN 0
                ELSE IF k = Cardinality(at) + 1 THEN Len(s) + 1
                ELSE CHOOSE i \in at : Cardinality({ j \in at : j < i }) = k - 1
  IN  [k \in 1..(Cardinality(at) + 1) |-> SubSeq(s, pos(k - 1) + 1, pos(k) - 1)]

\* sep.join(parts)
RECURSIVE Join(_, _)
Join(parts, sep) ==
  IF parts = <<>> THEN <<>>
  ELSE IF Len(parts) = 1 THEN parts[1]
  ELSE parts[1] \o sep \o Join(Tail(parts), sep)

(***************************************************************************)
(* Module constants and the literals of the source.                        *)
(***************************************************************************)
GITHUB_BASE_URL ==
  <<"h","t","t","p","s",":","/","/","g","i","t","h","u","b",".","c","o","m","/">>

ISSUES == <<"i","s","s","u","e","s">>

\* "- [ ]" and "- [x]"
UNCHECKED == <<"-"," ","[", " ", "]">>
CHECKED == <<"-"," ","[", "x", "]">>

\* the backquote character, which a TLA+ string literal cannot hold
BACKQUOTE == "backquote"

FENCE == <<BACKQUOTE, BACKQUOTE, BACKQUOTE>>
TASKLIST_TAG == <<"[","t","a","s","k","l","i","s","t","]">>
TASKS_HEADING == <<"#","#","#"," ","T","a","s","k","s">>

\* time.sleep(5)
LINK_DELAY == 5

(***************************************************************************)
(* URL / identity parsing.                                                 *)
(***************************************************************************)
is_github_issue_url(url) ==
  IF ~StartsWith(Strip(url), GITHUB_BASE_URL) THEN FALSE
  ELSE LET parts == Split(SliceFrom(Strip(url), Len(GITHUB_BASE_URL)), "/")
       IN  Len(parts) >= 4 /\ parts[3] = ISSUES

\* ok = FALSE stands for the ValueError the function raises
split_github_issue_url(issue_url) ==
  IF ~StartsWith(issue_url, GITHUB_BASE_URL) THEN [ok |-> FALSE]
  ELSE LET parts == Split(SliceFrom(issue_url, Len(GITHUB_BASE_URL)), "/")
       IN  IF Len(parts) >= 4 /\ parts[3] = ISSUES
           THEN [ok |-> TRUE, owner |-> parts[1], repo |-> parts[2], issue_id |-> parts[4]]
           ELSE [ok |-> FALSE]

split_github_repo_url(repo_url) ==
  IF ~StartsWith(repo_url, GITHUB_BASE_URL) THEN [ok |-> FALSE]
  ELSE LET parts == Split(SliceFrom(repo_url, Len(GITHUB_BASE_URL)), "/")
       IN  IF Len(parts) = 2
           THEN [ok |-> TRUE, owner |-> parts[1], repo |-> parts[2]]
           ELSE [ok |-> FALSE]

(***************************************************************************)
(* Tasklist text processing.                                               *)
(***************************************************************************)
\* the condition of line 33
IsTaskLine(line) ==
  StartsWith(Strip(line), UNCHECKED) \/ StartsWith(Strip(line), CHECKED)

\* lines 34-38: the text is cut from the line as it is, the flag is read
\* from the stripped line
TaskOfLine(line) ==
  [text |-> Strip(SliceFrom(line, 5)), is_checked |-> (Strip(line)[4] = "x")]

RECURSIVE TasksOfLines(_)
TasksOfLines(lines) ==
  IF lines = <<>> THEN <<>>
  ELSE IF IsTaskLine(Head(lines))
       THEN <<TaskOfLine(Head(lines))>> \o TasksOfLines(Tail(lines))
       ELSE TasksOfLines(Tail(lines))

extract_tasks(issue_body) == TasksOfLines(Split(issue_body, "\n"))

RECURSIVE TaskLinesOf(_)
TaskLinesOf(tasks) ==
  IF tasks = <<>> THEN <<>>
  ELSE <<"\n", "-", " ">>
       \o (IF Head(tasks).is_checked THEN <<"[","x","]">> ELSE <<"[", " ", "]">>)
       \o <<" ">> \o Head(tasks).text \o TaskLinesOf(Tail(tasks))

create_tasklist_body(tasks) ==
  IF tasks = <<>> THEN <<>>
  ELSE FENCE \o TASKLIST_TAG \o <<"\n">> \o TASKS_HEADING
       \o TaskLinesOf(tasks) \o <<"\n">> \o FENCE

\* s has p at the 1-based position i
HasAt(s, i, p) == i >= 1 /\ i + Len(p) - 1 <= Len(s) /\ SubSeq(s, i, i + Len(p) - 1) = p

\* the position after the run of spaces that starts at i (the " *" of the pattern)
RECURSIVE SkipSpaces(_, _)
SkipSpaces(s, i) == IF i <= Len(s) /\ s[i] = " " THEN SkipSpaces(s, i + 1) ELSE i

\* the least position >= i where p occurs in s, 0 if there is none
FindFrom(s, i, p) ==
  LET at == { k \in i..Len(s) : HasAt(s, k, p) }
  IN  IF at = {} THEN 0 ELSE Least(at)

\* the last position of the match of tasklist_pattern (three backquotes,
\* spaces, the [tasklist] tag, the shortest text up to three backquotes)
\* that starts at i, 0 if none starts there
MatchEnd(s, i) ==
  IF ~HasAt(s, i, FENCE) THEN 0
  ELSE LET j == SkipSpaces(s, i + Len(FENCE))
       IN  IF ~HasAt(s, j, TASKLIST_TAG) THEN 0
           ELSE LET k == FindFrom(s, j + Len(TASKLIST_TAG), FENCE)
                IN  IF k = 0 THEN 0 ELSE k + Len(FENCE) - 1

\* the start of the leftmost match, 0 if there is none
FirstMatch(s) ==
  LET at == { i \in 1..Len(s) : MatchEnd(s, i) # 0 }
  IN  IF at = {} THEN 0 ELSE Least(at)

\* re.sub(tasklist_pattern, replacement_tasklist, issue_body, 1); the
\* replacement holds no backslash in this model, so it is taken literally
replace_tasklist_in_issue_body(issue_body, replacement_tasklist) ==
  LET i == FirstMatch(issue_body)
  IN  IF i = 0 THEN issue_body
      ELSE SubSeq(issue_body, 1, i - 1) \o replacement_tasklist
           \o SliceFrom(issue_body, MatchEnd(issue_body, i))

(***************************************************************************)
(* The inputs of the model.                                                *)
(***************************************************************************)
\* Python's None
None == <<"None">>

IssueUrl(owner, repo, number) ==
  GITHUB_BASE_URL \o owner \o <<"/">> \o repo \o <<"/">> \o ISSUES \o <<"/">> \o number

\* the decimal numeral of a small positive number
NumStr(n) == <<(<<"1","2","3","4","5","6","7","8","9">>)[n]>>

\* --issueurl: an issue of owner A, or the URL of its repository by mistake
ParentUrls ==
  { IssueUrl(<<"A">>, <<"r">>, <<"1">>), GITHUB_BASE_URL \o <<"A", "/", "r">> }

\* --refrepo: absent, or a repository of owner A
RefRepoUrls == { None, GITHUB_BASE_URL \o <<"A", "/", "x">> }

\* the checklist lines of the parent body of a run: issues of the parent's
\* owner, issues of another owner, free text
RunLines ==
  { UNCHECKED \o <<" ">> \o IssueUrl(<<"A">>, <<"r">>, <<"5">>),
    CHECKED \o <<" ">> \o IssueUrl(<<"A">>, <<"r">>, <<"6">>),
    UNCHECKED \o <<" ">> \o IssueUrl(<<"B">>, <<"r">>, <<"7">>),
    CHECKED \o <<" ">> \o IssueUrl(<<"B">>, <<"r">>, <<"8">>),
    UNCHECKED \o <<" ", "w">>,
    CHECKED \o <<" ", "v">> }

SeqsUpTo(S, n) == UNION { [1..k -> S] : k \in 0..n }

\* a body: a line of prose, then `before` as bare checklist lines, then (if
\* fenced) a [tasklist] block holding `inside`.  The bodies of a run have
\* all their checklist lines in the block, all but the first, or no block.
BodyOf(before, fenced, inside) ==
  Join(<<<<"d">>>> \o before
       \o (IF fenced THEN <<FENCE \o TASKLIST_TAG, TASKS_HEADING>> \o inside \o <<FENCE>>
           ELSE <<>>),
       <<"\n">>)

RunBodies ==
  UNION { { BodyOf(SubSeq(ls, 1, k), TRUE, SubSeq(ls, k + 1, Len(ls))) :
              k \in { n \in {0, 1} : n <= Len(ls) } } :
            ls \in SeqsUpTo(RunLines, MaxTasks) }
  \cup { BodyOf(ls, FALSE, <<>>) : ls \in SeqsUpTo(RunLines, MaxTasks) }

(***************************************************************************)
(* State.                                                                  *)
(***************************************************************************)
VARIABLES
  pc,                   \* position in create_sub_issues
  parent_issue_url,     \* self.parent_issue_url
  reference_repo,       \* self.reference_repo
  reference_repo_owner, \* self.reference_repo_owner
  parent_owner,         \* owner parsed from the parent URL
  parent_body,          \* the body fetched at the start
  tasks,                \* extract_tasks(parent_body)
  same_owner_urls,      \* the link bucket
  different_owner_urls, \* the different-owner bucket
  non_issue_tasks,      \* the non-issue bucket
  error_count,          \* per-task errors counted so far
  idx,                  \* position of the running for loop (1-based)
  exit_status,          \* -1 while running, else the status of the process
  remote_body,          \* GitHub: the body of the parent issue
  ref_issues,           \* GitHub: the reference issues created by the run
  calls,                \* history: the remote calls and sleeps, in order
  attempts              \* history: the outcome of each guarded step

vars ==
  << pc, parent_issue_url, reference_repo, reference_repo_owner, parent_owner,
     parent_body, tasks, same_owner_urls, different_owner_urls, non_issue_tasks,
     error_count, idx, exit_status, remote_body, ref_issues, calls, attempts >>

Call(op, arg, ok) == [op |-> op, arg |-> arg, ok |-> ok]

\* out: the URL the step returned, None if it returned none
Attempt(phase, item, ok, out) == [phase |-> phase, item |-> item, ok |-> ok, out |-> out]

\* Tasks2Subissues.__init__; a --refrepo that does not parse ends the process
\* in the constructor, so no run starts from it
InitObject(issue_url, ref_repo_url) ==
  /\ parent_issue_url = issue_url
  /\ IF ref_repo_url = None
     THEN reference_repo = None /\ reference_repo_owner = None
     ELSE /\ split_github_repo_url(ref_repo_url).ok
          /\ reference_repo = split_github_repo_url(ref_repo_url).repo
          /\ reference_repo_owner = split_github_repo_url(ref_repo_url).owner

Blank ==
  /\ parent_owner = None
  /\ parent_body = None
  /\ tasks = <<>>
  /\ same_owner_urls = <<>>
  /\ different_owner_urls = <<>>
  /\ non_issue_tasks = <<>>
  /\ error_count = 0
  /\ idx = 1
  /\ exit_status = -1
  /\ ref_issues = <<>>
  /\ calls = <<>>
  /\ attempts = <<>>

Init ==
  /\ pc = "resolve"
  /\ \E u \in ParentUrls, r \in RefRepoUrls : InitObject(u, r)
  /\ remote_body \in RunBodies
  /\ Blank

(***************************************************************************)
(* GitHub client.  The answers of the remote service are parameters: the   *)
(* callers draw them nondeterministically.                                 *)
(***************************************************************************)
\* create_issue: `origin` stands for the title and description, which are
\* built from the referenced URL; post201 says whether the create call
\* answered 201; patched is the fate of the follow-up state update ("ok",
\* "rejected" with an error status that is not looked at, or "raised");
\* n is the number GitHub gives the new issue
create_issue(owner, repo, origin, state, post201, patched, n) ==
  LET issue_url == IssueUrl(owner, repo, NumStr(n)) IN
  IF ~post201
  THEN [ok |-> FALSE, url |-> None,
        calls |-> <<Call("POST_ISSUE", origin, FALSE)>>, issues |-> <<>>]
  ELSE IF state = "closed"
  THEN [ok |-> patched # "raised", url |-> issue_url,
        calls |-> <<Call("POST_ISSUE", origin, TRUE),
                    Call("PATCH_STATE", issue_url, patched = "ok")>>,
        issues |-> <<[url |-> issue_url, origin |-> origin, origin_state |-> state,
                      state |-> IF patched = "ok" THEN "closed" ELSE "open"]>>]
  ELSE [ok |-> TRUE, url |-> issue_url,
        calls |-> <<Call("POST_ISSUE", origin, TRUE)>>,
        issues |-> <<[url |-> issue_url, origin |-> origin, origin_state |-> state,
                      state |-> "open"]>>]

\* create_reference_issue: details is "missing" when the fetched issue lacks
\* the title or state field, else the state of the referenced issue
create_reference_issue(issue_url, details, post201, patched, n) ==
  IF ~split_github_issue_url(issue_url).ok
  THEN [ok |-> FALSE, url |-> None, calls |-> <<>>, issues |-> <<>>]
  ELSE IF details = "missing"
  THEN [ok |-> FALSE, url |-> None,
        calls |-> <<Call("GET", issue_url, FALSE)>>, issues |-> <<>>]
  ELSE LET made == create_issue(reference_repo_owner, reference_repo, issue_url,
                                details, post201, patched, n)
       IN  [made EXCEPT !.calls = <<Call("GET", issue_url, TRUE)>> \o @]

(***************************************************************************)
(* Orchestrator: create_sub_issues.                                        *)
(***************************************************************************)
\* exit(status)
Exit(status) == pc' = "done" /\ exit_status' = status

\* a failed item that is not counted
CountErrorNot(ec) == ec

\* error_count = error_count + 1
CountError(ec) == ec + 1

\* every GitHub issue URL taken for an issue of the parent's owner
BucketOfAnyOwner(text, owner) ==
  IF is_github_issue_url(text)
  THEN IF ~split_github_issue_url(text).ok THEN "error" ELSE "same"
  ELSE "non"

\* the bucket a task text goes to; "error" stands for the exception that
\* the classification loop catches
BucketOf(text, owner) ==
  IF is_github_issue_url(text)
  THEN LET sub_info == split_github_issue_url(text)
       IN  IF ~sub_info.ok THEN "error"
           ELSE IF owner = sub_info.owner THEN "same" ELSE "different"
  ELSE "non"

\* the configuration check left out
MissingRefRepoUnchecked(diff, repo, owner) == FALSE

\* the fatal configuration error
MissingRefRepo(diff, repo, owner) ==
  Len(diff) > 0 /\ (repo = None \/ owner = None)

\* the referenced URL itself put in the link bucket
LinkBucketWithOrigin(same, iss_url, ref_url) == Append(same, iss_url)

\* same_owner_urls.append(ref_url)
LinkBucketAfterCreate(same, iss_url, ref_url) == Append(same, ref_url)

\* no pause after a link
AfterLinkNoDelay(linked) == <<>>

\* what follows the link mutation inside the try block of the link loop
AfterLink(linked) ==
  IF linked THEN <<Call("SLEEP", <<LINK_DELAY>>, TRUE)>> ELSE <<>>

\* the rewrite blocked only by more than one error
RewriteBlockedOnMany(ec) == ec > 1

\* the rewrite not gated by the error counter
RewriteNeverBlocked(ec) == FALSE

\* the gate in front of the rewrite of the parent body
RewriteBlocked(ec) == ec > 0

\* a failed PATCH of the parent body reported as a failure of the run
StatusAfterPatchStrict(outcome) == IF outcome = "ok" THEN 0 ELSE 1

\* the status the process ends with after the PATCH of the parent body:
\* exit(0) after either answer, and a normal return when the call raised
StatusAfterPatch(outcome) == 0

\* lines 305-317
ResolveParent ==
  /\ pc = "resolve"
  /\ LET parent_issue_info == split_github_issue_url(parent_issue_url) IN
     IF ~parent_issue_info.ok
     THEN /\ Exit(1)
          /\ attempts' = Append(attempts, Attempt("parent", parent_issue_url, FALSE, None))
          /\ UNCHANGED <<parent_owner, parent_body, tasks, calls>>
     ELSE \E got_body \in BOOLEAN, got_node \in BOOLEAN :
            /\ parent_owner' = parent_issue_info.owner
            /\ IF ~got_body
               THEN /\ calls' = Append(calls, Call("GET", parent_issue_url, FALSE))
                    /\ UNCHANGED <<parent_body, tasks>>
               ELSE /\ calls' = calls \o <<Call("GET", parent_issue_url, TRUE),
                                          Call("GET", parent_issue_url, got_node)>>
                    /\ parent_body' = remote_body
                    /\ tasks' = extract_tasks(remote_body)
            /\ attempts' =
                 Append(attempts, Attempt("parent", parent_issue_url, got_body /\ got_node, None))
            /\ IF got_body /\ got_node
               THEN /\ pc' = IF tasks' = <<>> THEN "precheck" ELSE "classify"
                    /\ UNCHANGED exit_status
               ELSE Exit(1)
  /\ UNCHANGED << parent_issue_url, reference_repo, reference_repo_owner,
                  same_owner_urls, different_owner_urls, non_issue_tasks,
                  error_count, idx, remote_body, ref_issues >>

\* one iteration of the loop of lines 323-336
Classify ==
  /\ pc = "classify"
  /\ LET task == tasks[idx]
         bucket == BucketOf(task.text, parent_owner)
     IN  /\ same_owner_urls' =
               IF bucket = "same" THEN Append(same_owner_urls, task.text)
               ELSE same_owner_urls
         /\ different_owner_urls' =
               IF bucket = "different" THEN Append(different_owner_urls, task.text)
               ELSE different_owner_urls
         /\ non_issue_tasks' =
               IF bucket = "non" THEN Append(non_issue_tasks, task) ELSE non_issue_tasks
         /\ error_count' =
               IF bucket = "error" THEN CountError(error_count) ELSE error_count
         /\ attempts' = Append(attempts, Attempt("classify", task.text, bucket # "error", None))
  /\ idx' = IF idx = Len(tasks) THEN 1 ELSE idx + 1
  /\ pc' = IF idx = Len(tasks) THEN "precheck" ELSE "classify"
  /\ UNCHANGED << parent_issue_url, reference_repo, reference_repo_owner, parent_owner,
                  parent_body, tasks, exit_status, remote_body, ref_issues, calls >>

\* lines 338-340
Precheck ==
  /\ pc = "precheck"
  /\ IF MissingRefRepo(different_owner_urls, reference_repo, reference_repo_owner)
     THEN Exit(1)
     ELSE /\ pc' = IF Len(different_owner_urls) > 0 THEN "reference"
                   ELSE IF Len(same_owner_urls) > 0 THEN "link" ELSE "finalize"
          /\ UNCHANGED exit_status
  /\ UNCHANGED << parent_issue_url, reference_repo, reference_repo_owner, parent_owner,
                  parent_body, tasks, same_owner_urls, different_owner_urls,
                  non_issue_tasks, error_count, idx, remote_body, ref_issues, calls,
                  attempts >>

\* one iteration of the loop of lines 344-351
Reference ==
  /\ pc = "reference"
  /\ LET iss_url == different_owner_urls[idx] IN
     \E details \in {"missing", "open", "closed"}, post201 \in BOOLEAN,
        patched \in {"ok", "rejected", "raised"} :
       LET made == create_reference_issue(iss_url, details, post201, patched,
                                          Len(ref_issues) + 1)
       IN  /\ calls' = calls \o made.calls
           /\ ref_issues' = ref_issues \o made.issues
           /\ same_owner_urls' =
                 IF made.ok THEN LinkBucketAfterCreate(same_owner_urls, iss_url, made.url)
                 ELSE same_owner_urls
           /\ error_count' = IF made.ok THEN error_count ELSE CountError(error_count)
           /\ attempts' = Append(attempts, Attempt("reference", iss_url, made.ok,
                                               IF made.ok THEN made.url ELSE None))
           /\ pc' = IF idx < Len(different_owner_urls) THEN "reference"
                    ELSE IF Len(same_owner_urls') > 0 THEN "link" ELSE "finalize"
  /\ idx' = IF idx < Len(different_owner_urls) THEN idx + 1 ELSE 1
  /\ UNCHANGED << parent_issue_url, reference_repo, reference_repo_owner, parent_owner,
                  parent_body, tasks, different_owner_urls, non_issue_tasks,
                  exit_status, remote_body >>

\* one iteration of the loop of lines 355-365
Link ==
  /\ pc = "link"
  /\ LET iss_url == same_owner_urls[idx] IN
     \E got_node \in BOOLEAN, linked \in BOOLEAN :
       LET parsed == split_github_issue_url(iss_url).ok
           ok == parsed /\ got_node /\ linked
       IN  /\ calls' = calls
                 \o (IF parsed THEN <<Call("GET", iss_url, got_node)>> ELSE <<>>)
                 \o (IF parsed /\ got_node
                     THEN <<Call("LINK", iss_url, linked)>> \o AfterLink(linked)
                     ELSE <<>>)
           /\ error_count' = IF ok THEN error_count ELSE CountError(error_count)
           /\ attempts' = Append(attempts, Attempt("link", iss_url, ok, None))
  /\ idx' = IF idx < Len(same_owner_urls) THEN idx + 1 ELSE 1
  /\ pc' = IF idx < Len(same_owner_urls) THEN "link" ELSE "finalize"
  /\ UNCHANGED << parent_issue_url, reference_repo, reference_repo_owner, parent_owner,
                  parent_body, tasks, same_owner_urls, different_owner_urls,
                  non_issue_tasks, exit_status, remote_body, ref_issues >>

\* lines 372-400
Finalize ==
  /\ pc = "finalize"
  /\ IF RewriteBlocked(error_count)
     THEN Exit(1) /\ UNCHANGED <<calls, remote_body>>
     ELSE IF Len(same_owner_urls) > 0
     THEN \E outcome \in {"ok", "rejected", "raised"} :
            LET tasklist_body_part ==
                  IF error_count = 0 /\ Len(non_issue_tasks) > 0
                  THEN create_tasklist_body(non_issue_tasks) ELSE <<>>
                new_body == replace_tasklist_in_issue_body(parent_body, tasklist_body_part)
            IN  /\ calls' = Append(calls, Call("PATCH_BODY", new_body, outcome = "ok"))
                /\ remote_body' = IF outcome = "ok" THEN new_body ELSE remote_body
                /\ Exit(StatusAfterPatch(outcome))
     ELSE Exit(0) /\ UNCHANGED <<calls, remote_body>>
  /\ UNCHANGED << parent_issue_url, reference_repo, reference_repo_owner, parent_owner,
                  parent_body, tasks, same_owner_urls, different_owner_urls,
                  non_issue_tasks, error_count, idx, ref_issues, attempts >>

Next == ResolveParent \/ Classify \/ Precheck \/ Reference \/ Link \/ Finalize

Spec == Init /\ [][Next]_vars

(***************************************************************************)
(* extract_tasks on its own: a body of a few lines, with and without       *)
(* leading whitespace, checkbox marker and text.                           *)
(***************************************************************************)
ExtractLines ==
  { pad \o head \o rest :
      pad \in { <<>>, <<" ">>, <<" ", " ">> },
      head \in { UNCHECKED, CHECKED, <<"-", " ", "[", "X", "]">>, <<"-", "[", " ", "]">> },
      rest \in { <<>>, <<" ", "w">>, <<"w">>, <<" ", "w", " ">> } }

ExtractBodies == { Join(ls, <<"\n">>) : ls \in SeqsUpTo(ExtractLines, MaxLines) }

InitExtract ==
  /\ pc = "extract"
  /\ parent_issue_url = None
  /\ reference_repo = None
  /\ reference_repo_owner = None
  /\ remote_body \in ExtractBodies
  /\ Blank

\* tasks = extract_tasks(parent_body), line 312
ExtractStep ==
  /\ pc = "extract"
  /\ parent_body' = remote_body
  /\ tasks' = extract_tasks(remote_body)
  /\ pc' = "extracted"
  /\ UNCHANGED << parent_issue_url, reference_repo, reference_repo_owner, parent_owner,
                  same_owner_urls, different_owner_urls, non_issue_tasks, error_count,
                  idx, exit_status, remote_body, ref_issues, calls, attempts >>

NextExtract == ExtractStep

SpecExtract == InitExtract /\ [][NextExtract]_vars

TypeOK ==
  /\ pc \in {"extract", "extracted", "resolve", "classify", "precheck", "reference", "link", "finalize", "done"}
  /\ exit_status \in {-1, 0, 1}
  /\ error_count \in 0..(2 * Len(tasks))
  /\ (pc = "done") = (exit_status # -1)

(***************************************************************************)
(* Views of the history.                                                   *)
(***************************************************************************)
CallsOf(ops) == SelectSeq(calls, LAMBDA c : c.op \in ops)

AttemptsOf(phase) == SelectSeq(attempts, LAMBDA a : a.phase = phase)

ItemsOf(as) == [k \in 1..Len(as) |-> as[k].item]

Texts(ts) == [k \in 1..Len(ts) |-> ts[k].text]

\* the per-task steps that failed
FailedItems == SelectSeq(attempts, LAMBDA a : a.phase # "parent" /\ ~a.ok)

ParentFailed == \E k \in 1..Len(attempts) : attempts[k].phase = "parent" /\ ~attempts[k].ok

RefRepoMissing ==
  Len(different_owner_urls) > 0 /\ (reference_repo = None \/ reference_repo_owner = None)

\* the pre-flight checks have passed and the loops are over
AtOrPastFinalize ==
  pc = "finalize" \/ (pc = "done" /\ ~ParentFailed /\ ~RefRepoMissing)

\* the first path segment of a GitHub URL
OwnerOf(url) == Split(SliceFrom(url, Len(GITHUB_BASE_URL)), "/")[1]

(***************************************************************************)
(* Claims.                                                                 *)
(***************************************************************************)
\* C1: if at least one per-task error occurred, no PATCH of the parent body
\* is ever issued and the parent body on GitHub is the body that was fetched.
C1_NoRewriteAfterError ==
  Len(FailedItems) > 0 =>
    /\ Len(CallsOf({"PATCH_BODY"})) = 0
    /\ remote_body = parent_body

\* a finished run in which one item was linked and another one failed
C1_Witness ==
  /\ pc = "done"
  /\ Len(FailedItems) > 0
  /\ \E k \in 1..Len(calls) : calls[k].op = "LINK" /\ calls[k].ok

\* C2: if the different-owner bucket is non-empty after classification and no
\* reference repository is configured, the run ends with a failure status
\* and has made no call but the two reads of the parent issue: no issue is
\* created, nothing is linked, the parent body is not patched.
C2_MissingRefRepoIsFatal ==
  (pc \notin {"resolve", "classify"} /\ RefRepoMissing) =>
    /\ pc \in {"precheck", "done"}
    /\ pc = "done" => exit_status = 1
    /\ Len(CallsOf({"POST_ISSUE", "PATCH_STATE", "LINK", "PATCH_BODY"})) = 0
    /\ \A k \in 1..Len(calls) : calls[k].op = "GET" /\ calls[k].arg = parent_issue_url

\* the run ended on the configuration error with a same-owner URL in hand
C2_Witness ==
  /\ pc = "done"
  /\ RefRepoMissing
  /\ Len(same_owner_urls) > 0

\* C4: a finished run has status 1 if the parent could not be read or
\* parsed, if different-owner tasks exist without a reference repository, or
\* if a per-task error was counted, and status 0 in every other case,
\* whatever the PATCH of the parent body answered.
C4_ExitStatus ==
  pc = "done" =>
    /\ exit_status \in {0, 1}
    /\ (exit_status = 1) = (ParentFailed \/ RefRepoMissing \/ Len(FailedItems) > 0)

\* a run that ends with status 0 although the PATCH of the parent body failed
C4_Witness ==
  /\ pc = "done"
  /\ exit_status = 0
  /\ \E k \in 1..Len(calls) : calls[k].op = "PATCH_BODY" /\ ~calls[k].ok

\* C5: when classification is over, the same-owner bucket holds the texts
\* that are GitHub issue URLs of the parent's owner, the different-owner
\* bucket those of another owner, the non-issue bucket the other tasks, each
\* in the order of the body; every task is in one bucket or counted as one
\* error.
C5_ClassificationPartitions ==
  pc = "precheck" =>
    /\ same_owner_urls =
         SelectSeq(Texts(tasks),
                   LAMBDA t : is_github_issue_url(t) /\ OwnerOf(t) = parent_owner)
    /\ different_owner_urls =
         SelectSeq(Texts(tasks),
                   LAMBDA t : is_github_issue_url(t) /\ OwnerOf(t) # parent_owner)
    /\ non_issue_tasks = SelectSeq(tasks, LAMBDA t : ~is_github_issue_url(t.text))
    /\ ItemsOf(AttemptsOf("classify")) = Texts(tasks)
    /\ error_count = Len(FailedItems)
    /\ Len(same_owner_urls) + Len(different_owner_urls) + Len(non_issue_tasks)
         + error_count = Len(tasks)

\* classification has put one URL in each of the two URL buckets
C5_Witness ==
  /\ pc = "precheck"
  /\ Len(same_owner_urls) > 0
  /\ Len(different_owner_urls) > 0

\* the iterations the two loops still have to make, at most
StepsLeft ==
  CASE pc = "reference" ->
         2 * (Len(different_owner_urls) - idx + 1) + Len(same_owner_urls)
    [] pc = "link" -> Len(same_owner_urls) - idx + 1
    [] OTHER -> 0

\* a step taken inside the loops stays in them or enters the finalize step,
\* and leaves fewer iterations to make
LoopStepAdvances ==
  pc \in {"reference", "link"} =>
    (pc' \in {"reference", "link", "finalize"} /\ StepsLeft' < StepsLeft)

\* C6: once the pre-flight checks have passed, the reference attempts are
\* the different-owner bucket, one each and in order, the link attempts are
\* the link bucket, one each and in order, whatever the earlier items did;
\* the error counter is the number of failed items; and the run reaches the
\* finalize step: inside the loops a step can always be taken, and every
\* step leaves fewer iterations to make or enters the finalize step.
C6_Isolation ==
  /\ [](error_count = Len(FailedItems))
  /\ [](AtOrPastFinalize =>
          /\ ItemsOf(AttemptsOf("reference")) = different_owner_urls
          /\ ItemsOf(AttemptsOf("link")) = same_owner_urls)
  /\ [](pc \in {"reference", "link"} => (StepsLeft > 0 /\ ENABLED Next))
  /\ [][LoopStepAdvances]_vars

\* the loops are over, the first reference attempt failed and a later
\* attempt was still made
C6_Witness ==
  /\ pc = "finalize"
  /\ \E j, k \in 1..Len(attempts) :
       /\ j < k
       /\ attempts[j].phase = "reference" /\ ~attempts[j].ok
       /\ attempts[k].phase \in {"reference", "link"}

\* C7: every successful link mutation is followed at once by the fixed
\* delay, before any other remote call.
C7_DelayAfterLink ==
  \A k \in 1..Len(calls) :
    (calls[k].op = "LINK" /\ calls[k].ok) =>
      /\ k < Len(calls)
      /\ calls[k + 1].op = "SLEEP"
      /\ calls[k + 1].arg = <<LINK_DELAY>>

\* two links were made, the earlier one with success
C7_Witness ==
  \E j, k \in 1..Len(calls) :
    /\ j < k
    /\ calls[j].op = "LINK" /\ calls[j].ok
    /\ calls[k].op = "LINK"

\* C8: the link attempts are the same-owner task URLs in checklist order and
\* then the URLs returned by the successful reference creations in checklist
\* order, each the URL of an issue created for its referenced URL; no
\* different-owner URL is passed to the link mutation; every create call
\* precedes every link call.
C8_MaterializeThenLink ==
  /\ AtOrPastFinalize =>
       ItemsOf(AttemptsOf("link")) =
         SelectSeq(Texts(tasks),
                   LAMBDA t : is_github_issue_url(t) /\ OwnerOf(t) = parent_owner)
         \o [k \in 1..Len(SelectSeq(AttemptsOf("reference"), LAMBDA a : a.ok)) |->
               SelectSeq(AttemptsOf("reference"), LAMBDA a : a.ok)[k].out]
  /\ \A k \in 1..Len(attempts) :
       (attempts[k].phase = "reference" /\ attempts[k].ok) =>
         \E n \in 1..Len(ref_issues) :
           ref_issues[n].url = attempts[k].out /\ ref_issues[n].origin = attempts[k].item
  /\ \A k \in 1..Len(calls) :
       calls[k].op = "LINK" =>
         /\ \A n \in 1..Len(different_owner_urls) : calls[k].arg # different_owner_urls[n]
         /\ \A j \in 1..Len(calls) : calls[j].op = "POST_ISSUE" => j < k

\* a task URL and then a created reference issue got a link attempt, and a
\* reference creation failed
C8_Witness ==
  /\ pc = "finalize"
  /\ \E k \in 1..Len(attempts) : attempts[k].phase = "reference" /\ ~attempts[k].ok
  /\ \E k \in 1..Len(attempts) : attempts[k].phase = "reference" /\ attempts[k].ok
  /\ Len(AttemptsOf("link")) > 0

\* C3: the body sent in the PATCH of the parent retains only the unconverted
\* free-text items: extract_tasks of it yields the non-issue tasks, and no
\* task of it is a linked issue URL, wherever the checkbox lines stand in the
\* body.
C3_RewriteKeepsOnlyFreeText ==
  \A k \in 1..Len(calls) :
    calls[k].op = "PATCH_BODY" =>
      LET left == extract_tasks(calls[k].arg)
      IN  /\ left = non_issue_tasks
          /\ \A n \in 1..Len(left) : \A j \in 1..Len(calls) :
               ~(calls[j].op = "LINK" /\ calls[j].ok /\ calls[j].arg = left[n].text)

\* C9: a reference issue whose creation returned a URL has the state of the
\* issue it refers to, and if that one is closed the state update was made
\* and took effect; a state update is only made after a create call that
\* answered 201.
C9_StateMirrored ==
  /\ \A k \in 1..Len(attempts) :
       (attempts[k].phase = "reference" /\ attempts[k].ok) =>
         \E n \in 1..Len(ref_issues) :
           /\ ref_issues[n].url = attempts[k].out
           /\ ref_issues[n].state = ref_issues[n].origin_state
  /\ \A j \in 1..Len(calls) :
       calls[j].op = "PATCH_STATE" =>
         j > 1 /\ calls[j - 1].op = "POST_ISSUE" /\ calls[j - 1].ok

\* the task a qualifying line stands for: flag and text both read from the
\* trimmed line
TaskOfTrimmedLine(line) ==
  [text |-> Strip(SliceFrom(Strip(line), 5)), is_checked |-> (Strip(line)[4] = "x")]

\* C10: extract_tasks returns one task per qualifying line, in source order;
\* its flag is true iff the bracket character is x and its text is the
\* trimmed remainder of the line after the checkbox marker, also for lines
\* with leading whitespace.
C10_ExtractTasks ==
  pc = "extracted" =>
    LET qualifying == SelectSeq(Split(parent_body, "\n"), LAMBDA l : IsTaskLine(l))
    IN  tasks = [k \in 1..Len(qualifying) |-> TaskOfTrimmedLine(qualifying[k])]

\* the link mutation succeeded for url in a call before call k
LinkedBefore(url, k) ==
  \E j \in 1..(k - 1) : calls[j].op = "LINK" /\ calls[j].ok /\ calls[j].arg = url

\* the tasks whose text is a GitHub issue URL
UrlTasks == SelectSeq(tasks, LAMBDA t : is_github_issue_url(t.text))

\* C11: when a PATCH of the parent body is issued, every extracted task
\* whose text is a GitHub issue URL has had a successful link call before it,
\* for the URL itself if it is of the parent's owner and for a reference
\* issue created for it otherwise, with one successful link call per such
\* task; no link call follows the PATCH; and a run that passes the finalize
\* step without error and with an empty link bucket issues no PATCH.
C11_NoLoss ==
  /\ \A k \in 1..Len(calls) :
       calls[k].op = "PATCH_BODY" =>
         /\ \A n \in 1..Len(UrlTasks) :
              IF OwnerOf(UrlTasks[n].text) = parent_owner
              THEN LinkedBefore(UrlTasks[n].text, k)
              ELSE \E r \in 1..Len(ref_issues) :
                     /\ ref_issues[r].origin = UrlTasks[n].text
                     /\ LinkedBefore(ref_issues[r].url, k)
         /\ Len(SelectSeq(SubSeq(calls, 1, k - 1), LAMBDA c : c.op = "LINK" /\ c.ok))
              = Len(UrlTasks)
         /\ \A j \in 1..Len(calls) : calls[j].op = "LINK" => j < k
  /\ (pc = "done" /\ AtOrPastFinalize /\ Len(FailedItems) = 0 /\ Len(same_owner_urls) = 0) =>
       (Len(CallsOf({"PATCH_BODY"})) = 0 /\ exit_status = 0)

\* the parent body was patched after a task URL and the reference issue of
\* a different-owner URL were linked
C11_Witness ==
  /\ \E k \in 1..Len(calls) : calls[k].op = "PATCH_BODY"
  /\ Len(different_owner_urls) > 0
  /\ Len(same_owner_urls) > Len(ref_issues)

====
